---- MODULE Spec2Model ----
(***************************************************************************)
(* Trade validation and execution of the Schwab-AI Portfolio Manager:      *)
(* src/trading/executor.py (execute_trades, execute_single_trade),         *)
(* src/trading/validation.py (validate_trade and its stages) and the       *)
(* order path of src/schwab/client.py (create_equity_order, place_order);  *)
(* the recommendation strategy of src/trading/strategy.py                  *)
(* (RiskAverseStrategy) and the risk assessment of src/analysis/risk.py    *)
(* (calculate_portfolio_risk), as functions called directly; the refresh  *)
(* of the Portfolio object (src/schwab/portfolio.py) in a run of           *)
(* src/main.py.                                                            *)
(*                                                                         *)
(* Numbers are integers and the arithmetic is exact: a comparison of       *)
(* Python float quotients is modelled by the cross-multiplied comparison.  *)
(* An optional value (Python None or a value) is the sequence <<>> or <<v>>.*)
(***************************************************************************)
EXTENDS Integers, Sequences, FiniteSets, TLC

VARIABLES
    pc,                 \* position of the caller: "idle", "loop" (inside execute_trades), "done"
    recommendations,    \* argument of execute_trades
    client,             \* the SchwabClient: primary_account_id and the account the brokerage reports
    config,             \* the configuration dictionary (a function on the keys that are present)
    dry_run,            \* local of execute_trades
    max_trades,         \* local of execute_trades
    sorted_recommendations, \* local of execute_trades
    i,                  \* loop index of execute_trades (0-based, as enumerate)
    executed_trades,    \* local of execute_trades, the list it returns
    outcome,            \* how the call ended: "none", "returned", "raised"
    validation,         \* the iteration that just ran: gateway answers, validate_trade's result,
                        \* exception caught (None outside the loop)
    history,            \* per iteration that ran: the recommendation, what validate_trade
                        \* returned, the order call made, the trade appended
    calls,              \* the methods called so far and the calls of the broker's order endpoint
    fn,                 \* a direct call of one function: its name, its arguments and, once
                        \* it has run, what it returned (None outside such a call)
    run                 \* a run of main: where it stands, its portfolio object, the quotes
                        \* and what the analysis and the strategy read (None outside a run)

vars == <<pc, recommendations, client, config, dry_run, max_trades,
          sorted_recommendations, i, executed_trades, outcome, validation,
          history, calls, fn, run>>

(* the variables of execute_trades and its caller *)
executorVars == <<pc, recommendations, client, config, dry_run, max_trades,
                  sorted_recommendations, i, executed_trades, outcome, validation,
                  history, calls>>

----------------------------------------------------------------------------
(* Bounds of the model *)

MaxRecs == 2            \* longest recommendation list handed to execute_trades

----------------------------------------------------------------------------
(* Optional values *)

None == <<>>
Some(v) == <<v>>
IsNone(o) == o = <<>>
Val(o) == o[1]

(* int(x / y) for y > 0: Python's int() truncates toward zero *)
TruncDiv(x, y) == IF x >= 0 THEN x \div y ELSE -((-x) \div y)

----------------------------------------------------------------------------
(* Configuration: Python's dict.get(key, default) *)

ConfigGet(cfg, key, default) == IF key \in DOMAIN cfg THEN cfg[key] ELSE default

DefaultMaxTradesPerSession == 5
DefaultMinTradeQuantity == 1
DefaultMaxTradeQuantity == 10000
DefaultMinCashReservePercent == 5
DefaultMaxPositionSizePercent == 10
DefaultMinPositionSize == 1
DefaultBuyPercentage == 5

(* a dictionary entry that is present with value opt[1], or absent *)
Entry(key, opt) == IF IsNone(opt) THEN <<>> ELSE key :> Val(opt)

(* the optional keys: absent, or one of the listed values *)
OptBool == {None, Some(TRUE), Some(FALSE)}
OptMaxTrades == {None, Some(0), Some(1)}

(* the limits are those of the configuration of tests/test_trading.py *)
Configs ==
    { Entry("DRY_RUN", d) @@ Entry("ENABLE_AUTO_TRADING", a)
        @@ Entry("MAX_TRADES_PER_SESSION", m)
        @@ ("MAX_POSITION_SIZE_PERCENT" :> 25) @@ ("MIN_CASH_RESERVE_PERCENT" :> 5) :
        d \in OptBool, a \in OptBool, m \in OptMaxTrades }

----------------------------------------------------------------------------
(* Recommendation: action, symbol, optional quantity, optional percentage, priority *)

Rec(action, symbol, quantity, percentage, priority) ==
    [action |-> action, symbol |-> symbol, quantity |-> quantity,
     percentage |-> percentage, priority |-> priority]

(* the recommendations handed to execute_trades: a sale of a percentage of
   a position, large enough for two of them to exceed it, a buy of a
   percentage of the cash and a buy of an explicit quantity *)
RecSet ==
    { Rec("SELL", "AAPL", None, Some(80), 10),
      Rec("BUY", "VTI", None, Some(50), 5),
      Rec("BUY", "AAPL", Some(1), None, 8) }

RecLists == UNION { [1..n -> RecSet] : n \in 0..MaxRecs }

----------------------------------------------------------------------------
(* Portfolio and Position (src/schwab/portfolio.py), as the gateway reports them *)

Pos(symbol, quantity, market_value) ==
    [symbol |-> symbol, quantity |-> quantity, market_value |-> market_value]

(* the fixture of tests/test_trading.py *)
TestPortfolio ==
    [account_value |-> 5000, cash_balance |-> 2050,
     positions |-> << Pos("AAPL", 10, 1700), Pos("MSFT", 5, 1250) >>]

(* an account with a short position: long minus short quantity is negative,
   and the liquidation value is cash plus the signed market values *)
ShortPortfolio ==
    [account_value |-> 1530, cash_balance |-> 300,
     positions |-> << Pos("AAPL", 10, 1700), Pos("MSFT", -2, -470) >>]

Portfolios == {TestPortfolio, ShortPortfolio}

(* Portfolio.get_position_by_symbol: the first position with the symbol, or None *)
get_position_by_symbol(portfolio, symbol) ==
    LET idx == {k \in 1..Len(portfolio.positions) : portfolio.positions[k].symbol = symbol}
    IN IF idx = {} THEN None
       ELSE Some(portfolio.positions[CHOOSE k \in idx : \A j \in idx : k <= j])

(* the last prices the quote service reports (tests/test_trading.py) *)
LastPrice == [s \in {"AAPL", "MSFT", "VTI"} |->
                 CASE s = "AAPL" -> 170 [] s = "MSFT" -> 250 [] s = "VTI" -> 220]

(* a SchwabClient: its primary account id (None when the login returned no
   account) and the account the brokerage reports *)
Clients ==
    { [primary_account_id |-> Some("ACCT"), portfolio |-> TestPortfolio],
      [primary_account_id |-> Some("ACCT"), portfolio |-> ShortPortfolio],
      [primary_account_id |-> None, portfolio |-> TestPortfolio] }

(* What the brokerage answers during one loop iteration:
     quote1    answer to the get_quote of validate_symbol
     portfolio answer to get_account
     quote2    answer to the get_quote of validate_trade
     order     answer to the broker's place_order endpoint *)
AllGatewayOutcomes ==
    [quote1 : {"raise", "absent", "present"},
     portfolio : {"raise", "ok"},
     quote2 : {"raise", "absent", "noprice", "zero", "price"},
     order : {"raise", "orderId", "noOrderId"}]

(* an answer is enumerated only when the request before it succeeded: after
   a failure the later requests of the iteration are not made *)
GatewayOutcomes ==
    { g \in AllGatewayOutcomes :
        /\ g.quote1 # "present" => g.portfolio = "ok"
        /\ g.portfolio # "ok" => g.quote2 = "price"
        /\ g.quote2 # "price" => g.order = "orderId" }

----------------------------------------------------------------------------
(* SchwabClient (src/schwab/client.py): every failure inside a method is
   re-raised as SchwabClientError *)

(* get_quote: [exc, quotes]; quotes is "absent" (the symbol is not a key of the
   answer), "noprice" (a key without lastPrice), or Some(lastPrice) *)
get_quote(symbol, answer) ==
    CASE answer = "raise"   -> [exc |-> "SchwabClientError", quotes |-> "absent", lastPrice |-> None]
      [] answer = "absent"  -> [exc |-> "none", quotes |-> "absent", lastPrice |-> None]
      [] answer = "noprice" -> [exc |-> "none", quotes |-> "present", lastPrice |-> None]
      [] answer = "zero"    -> [exc |-> "none", quotes |-> "present", lastPrice |-> Some(0)]
      [] OTHER              -> [exc |-> "none", quotes |-> "present", lastPrice |-> Some(LastPrice[symbol])]

(* get_portfolio: raises when there is no account id or the request fails *)
get_portfolio(cl, answer) ==
    IF IsNone(cl.primary_account_id) \/ answer = "raise"
    THEN [exc |-> "SchwabClientError", portfolio |-> None]
    ELSE [exc |-> "none", portfolio |-> Some(cl.portfolio)]

----------------------------------------------------------------------------
(* src/trading/validation.py *)

(* validate_symbol without the membership test "symbol in quotes" *)
validate_symbol_NoMembership(symbol, cl, g) ==
    get_quote(symbol, g.quote1).exc = "none"

(* validate_symbol: the symbol is a key of the quote answer; an exception of
   get_quote is caught and gives False *)
validate_symbol(symbol, cl, g) ==
    LET q == get_quote(symbol, g.quote1)
    IN IF q.exc # "none" THEN FALSE ELSE q.quotes = "present"

QuantityResult(valid, reason, quantity) ==
    [valid |-> valid, reason |-> reason, quantity |-> quantity]

(* lines 221-236: minimum and maximum quantity limits *)
ApplyQuantityLimits(quantity, cfg) ==
    LET min_quantity == ConfigGet(cfg, "MIN_TRADE_QUANTITY", DefaultMinTradeQuantity)
        max_quantity == ConfigGet(cfg, "MAX_TRADE_QUANTITY", DefaultMaxTradeQuantity)
    IN IF quantity < min_quantity
       THEN QuantityResult(FALSE, "Quantity below minimum", 0)
       ELSE QuantityResult(TRUE, "", IF quantity > max_quantity THEN max_quantity ELSE quantity)

(* quantity bought with percentage percent of the cash at current_price *)
BuyQuantity(cash, percentage, current_price) ==
    IF current_price > 0 THEN TruncDiv(cash * percentage, 100 * current_price) ELSE 0

validate_quantity(recommendation, position, portfolio, current_price, cfg) ==
    IF ~IsNone(recommendation.quantity) THEN
        \* Case 1: the recommendation specifies the quantity
        LET quantity == Val(recommendation.quantity)
        IN IF recommendation.action = "SELL"
              /\ (IsNone(position) \/ Val(position).quantity < quantity)
           THEN QuantityResult(FALSE, "Recommended sell quantity exceeds current position", 0)
           ELSE ApplyQuantityLimits(quantity, cfg)
    ELSE IF ~IsNone(recommendation.percentage) THEN
        \* Case 2: the recommendation specifies a percentage
        LET percentage == Val(recommendation.percentage)
        IN IF recommendation.action = "BUY" THEN
               LET quantity == BuyQuantity(portfolio.cash_balance, percentage, current_price)
               IN IF quantity <= 0
                  THEN QuantityResult(FALSE, "Insufficient cash to buy percentage of cash balance", 0)
                  ELSE ApplyQuantityLimits(quantity, cfg)
           ELSE
               IF IsNone(position)
               THEN QuantityResult(FALSE, "Cannot sell percentage of non-existent position", 0)
               ELSE LET quantity == TruncDiv(Val(position).quantity * percentage, 100)
                    IN IF quantity <= 0
                       THEN QuantityResult(FALSE, "Sell percentage results in zero shares", 0)
                       ELSE ApplyQuantityLimits(quantity, cfg)
    ELSE
        \* Case 3: neither quantity nor percentage
        IF recommendation.action = "SELL" THEN
            IF IsNone(position)
            THEN QuantityResult(FALSE, "Cannot sell non-existent position", 0)
            ELSE ApplyQuantityLimits(Val(position).quantity, cfg)
        ELSE
            LET quantity == BuyQuantity(portfolio.cash_balance, DefaultBuyPercentage, current_price)
            IN IF quantity <= 0
               THEN QuantityResult(FALSE, "Insufficient cash for default buy quantity", 0)
               ELSE ApplyQuantityLimits(quantity, cfg)

CheckResult(valid, reason, exc) == [valid |-> valid, reason |-> reason, exc |-> exc]

(* validate_buy without the cash reserve check *)
validate_buy_NoReserve(recommendation, portfolio, quantity, current_price, cfg) ==
    LET cash_balance == portfolio.cash_balance
        cost == quantity * current_price
        max_position_size == ConfigGet(cfg, "MAX_POSITION_SIZE_PERCENT", DefaultMaxPositionSizePercent)
        existing_position == get_position_by_symbol(portfolio, recommendation.symbol)
        existing_value == IF IsNone(existing_position) THEN 0 ELSE Val(existing_position).market_value
        new_value == existing_value + cost
        divisor == portfolio.account_value + cost - existing_value
        tooLarge == IF divisor > 0 THEN new_value * 100 > max_position_size * divisor
                    ELSE new_value * 100 < max_position_size * divisor
    IN IF cost > cash_balance
       THEN CheckResult(FALSE, "Insufficient cash for trade", "none")
       ELSE IF divisor = 0
       THEN CheckResult(FALSE, "", "ZeroDivisionError")
       ELSE IF tooLarge
       THEN CheckResult(FALSE, "Trade would create position exceeding maximum size", "none")
       ELSE CheckResult(TRUE, "", "none")

(* validate_buy: cash, cash reserve, position size.  new_weight is
   new_value / (account_value + cost - existing_value) * 100; the division
   raises ZeroDivisionError when the divisor is 0 *)
validate_buy(recommendation, portfolio, quantity, current_price, cfg) ==
    LET cash_balance == portfolio.cash_balance
        cost == quantity * current_price
        min_cash_reserve == ConfigGet(cfg, "MIN_CASH_RESERVE_PERCENT", DefaultMinCashReservePercent)
        remaining_cash == cash_balance - cost
        max_position_size == ConfigGet(cfg, "MAX_POSITION_SIZE_PERCENT", DefaultMaxPositionSizePercent)
        existing_position == get_position_by_symbol(portfolio, recommendation.symbol)
        existing_value == IF IsNone(existing_position) THEN 0 ELSE Val(existing_position).market_value
        new_value == existing_value + cost
        divisor == portfolio.account_value + cost - existing_value
        \* new_value / divisor * 100 > max_position_size
        tooLarge == IF divisor > 0 THEN new_value * 100 > max_position_size * divisor
                    ELSE new_value * 100 < max_position_size * divisor
    IN IF cost > cash_balance
       THEN CheckResult(FALSE, "Insufficient cash for trade", "none")
       ELSE IF remaining_cash * 100 < portfolio.account_value * min_cash_reserve
       THEN CheckResult(FALSE, "Trade would reduce cash below minimum reserve", "none")
       ELSE IF divisor = 0
       THEN CheckResult(FALSE, "", "ZeroDivisionError")
       ELSE IF tooLarge
       THEN CheckResult(FALSE, "Trade would create position exceeding maximum size", "none")
       ELSE CheckResult(TRUE, "", "none")

(* validate_sell without the minimum position size check *)
validate_sell_NoMinimum(recommendation, position, quantity, cfg) ==
    IF IsNone(position)
    THEN CheckResult(FALSE, "Cannot sell non-existent position", "none")
    ELSE IF quantity > Val(position).quantity
    THEN CheckResult(FALSE, "Insufficient shares for sale", "none")
    ELSE CheckResult(TRUE, "", "none")

(* validate_sell: the position exists, holds the quantity, and the sale
   leaves no remainder below MIN_POSITION_SIZE *)
validate_sell(recommendation, position, quantity, cfg) ==
    LET min_position_size == ConfigGet(cfg, "MIN_POSITION_SIZE", DefaultMinPositionSize)
    IN IF IsNone(position)
       THEN CheckResult(FALSE, "Cannot sell non-existent position", "none")
       ELSE IF quantity > Val(position).quantity
       THEN CheckResult(FALSE, "Insufficient shares for sale", "none")
       ELSE LET new_quantity == Val(position).quantity - quantity
            IN IF 0 < new_quantity /\ new_quantity < min_position_size
               THEN CheckResult(FALSE, "Sale would reduce position below minimum size", "none")
               ELSE CheckResult(TRUE, "", "none")

(* The result of validate_trade: the dictionary it returns (valid, reason,
   quantity), or the exception it raises (exc), with the stages it ran and
   the client calls it made, in order, and whether a client call raised. *)
TradeResult(valid, reason, quantity, exc, stages, gatewayError) ==
    [valid |-> valid, reason |-> reason, quantity |-> quantity, exc |-> exc,
     stages |-> stages, gatewayError |-> gatewayError]

validate_trade(recommendation, cl, cfg, g) ==
    LET symbol == recommendation.symbol
        s1 == <<"validate_symbol", "get_quote">>
    IN IF ~validate_symbol(symbol, cl, g)
       THEN TradeResult(FALSE, "Invalid symbol", 0, "none", s1, g.quote1 = "raise")
       ELSE
       LET pf == get_portfolio(cl, g.portfolio)
           s2 == s1 \o <<"get_portfolio">>
       IN IF pf.exc # "none"
          THEN TradeResult(FALSE, "Failed to get position or quote data", 0, "none", s2, TRUE)
          ELSE
          LET portfolio == Val(pf.portfolio)
              position == get_position_by_symbol(portfolio, symbol)
              q == get_quote(symbol, g.quote2)
              s3 == s2 \o <<"get_quote">>
              \* quotes.get(symbol, {}).get("lastPrice", 0)
              current_price == IF q.quotes = "absent" \/ IsNone(q.lastPrice) THEN 0 ELSE Val(q.lastPrice)
          IN IF q.exc # "none"
             THEN TradeResult(FALSE, "Failed to get position or quote data", 0, "none", s3, TRUE)
             ELSE IF current_price = 0
             THEN TradeResult(FALSE, "Could not get current price", 0, "none", s3, FALSE)
             ELSE
             LET quantity_result == validate_quantity(recommendation, position, portfolio, current_price, cfg)
                 s4 == s3 \o <<"validate_quantity">>
             IN IF ~quantity_result.valid
                THEN TradeResult(FALSE, quantity_result.reason, 0, "none", s4, FALSE)
                ELSE
                LET quantity == quantity_result.quantity
                IN IF recommendation.action = "BUY" THEN
                       LET b == validate_buy(recommendation, portfolio, quantity, current_price, cfg)
                       IN TradeResult(b.valid, b.reason, quantity, b.exc, s4 \o <<"validate_buy">>, FALSE)
                   ELSE
                       LET s == validate_sell(recommendation, position, quantity, cfg)
                       IN TradeResult(s.valid, s.reason, quantity, s.exc, s4 \o <<"validate_sell">>, FALSE)

----------------------------------------------------------------------------
(* Order path of SchwabClient (src/schwab/client.py) *)

Order(symbol, quantity, instruction, price) ==
    [orderType |-> IF IsNone(price) THEN "MARKET" ELSE "LIMIT",
     instruction |-> instruction, quantity |-> quantity, symbol |-> symbol]

(* place_order that ignores its dry_run argument *)
place_order_IgnoresDryRun(order, account_id, dry, cl, g) ==
    LET account == IF IsNone(account_id) THEN cl.primary_account_id ELSE account_id
    IN IF IsNone(account)
       THEN [exc |-> "SchwabClientError", orderId |-> None, brokerCalls |-> 0]
       ELSE IF g.order = "raise"
       THEN [exc |-> "SchwabClientError", orderId |-> None, brokerCalls |-> 1]
       ELSE [exc |-> "none",
             orderId |-> IF g.order = "orderId" THEN Some("order-1") ELSE None,
             brokerCalls |-> 1]

(* place_order: with dry_run the order is only logged; otherwise it goes to
   the broker's place_order endpoint, whose answer is g.order.  brokerCalls
   counts the calls of that endpoint. *)
place_order(order, account_id, dry, cl, g) ==
    LET account == IF IsNone(account_id) THEN cl.primary_account_id ELSE account_id
    IN IF IsNone(account)
       THEN [exc |-> "SchwabClientError", orderId |-> None, brokerCalls |-> 0]
       ELSE IF dry
       THEN [exc |-> "none", orderId |-> None, brokerCalls |-> 0]
       ELSE IF g.order = "raise"
       THEN [exc |-> "SchwabClientError", orderId |-> None, brokerCalls |-> 1]
       ELSE [exc |-> "none",
             orderId |-> IF g.order = "orderId" THEN Some("order-1") ELSE None,
             brokerCalls |-> 1]

(* create_equity_order: builds the order and places it in the primary account *)
create_equity_order(symbol, quantity, instruction, price, dry, cl, g) ==
    place_order(Order(symbol, quantity, instruction, price), None, dry, cl, g)

----------------------------------------------------------------------------
(* src/trading/executor.py *)

ExecutedTrade(symbol, action, quantity, price, order_id, status) ==
    [symbol |-> symbol, action |-> action, quantity |-> quantity,
     price |-> price, order_id |-> order_id, status |-> status]

(* a status that does not look at the order id *)
LiveStatus_AlwaysCompleted(order_id) == "completed"

(* line 182: status = "completed" if order_id else "failed" *)
LiveStatus(order_id) == IF ~IsNone(order_id) THEN "completed" ELSE "failed"

(* execute_single_trade: the ExecutedTrade, or TradeExecutionError when the
   order call raised; request is the call of create_equity_order it made *)
execute_single_trade(recommendation, quantity, cl, account_id, dry, g) ==
    LET symbol == recommendation.symbol
        action == recommendation.action
        instruction == IF action = "BUY" THEN "BUY" ELSE "SELL"
        order_result == create_equity_order(symbol, quantity, instruction, None, dry, cl, g)
        request == [symbol |-> symbol, quantity |-> quantity,
                    instruction |-> instruction, dry_run |-> dry]
        order_id == order_result.orderId
    IN IF order_result.exc # "none"
       THEN [exc |-> "TradeExecutionError", trade |-> None, request |-> request,
             brokerCalls |-> order_result.brokerCalls]
       ELSE IF dry
       THEN [exc |-> "none", request |-> request,
             trade |-> Some(ExecutedTrade(symbol, action, quantity, None, None, "simulated")),
             brokerCalls |-> order_result.brokerCalls]
       ELSE [exc |-> "none", request |-> request,
             trade |-> Some(ExecutedTrade(symbol, action, quantity, None, order_id,
                                          LiveStatus(order_id))),
             brokerCalls |-> order_result.brokerCalls]

(* sorted(recommendations, key=priority, reverse=True): stable, the
   recommendations of equal priority keep their input order *)
InsertByPriority_Unsorted(s, r) == Append(s, r)

InsertByPriority(s, r) ==
    LET k == Cardinality({j \in 1..Len(s) : s[j].priority >= r.priority})
    IN SubSeq(s, 1, k) \o <<r>> \o SubSeq(s, k + 1, Len(s))

RECURSIVE SortByPriority(_)
SortByPriority(recs) ==
    IF recs = <<>> THEN <<>>
    ELSE InsertByPriority(SortByPriority(SubSeq(recs, 1, Len(recs) - 1)), recs[Len(recs)])

(* the handler "except Exception" of the loop of execute_trades *)
Exceptions == {"SchwabClientError", "TradeExecutionError", "ZeroDivisionError"}
LoopCatches_OnlyTradeExecutionError(exc) == exc = "TradeExecutionError"
LoopCatches_Nothing(exc) == FALSE
LoopCatches(exc) == exc \in Exceptions

(* methods: the functions and client methods called so far; broker: the
   number of calls of the broker's order endpoint; failed: a client call
   raised SchwabClientError *)
NoCalls == [methods |-> {}, broker |-> 0, failed |-> FALSE]

(* auto trading on by default *)
AutoTradingDisabled_DefaultOn(cfg) == ~ConfigGet(cfg, "ENABLE_AUTO_TRADING", TRUE)

(* lines 83-84: auto trading is off unless the configuration enables it *)
AutoTradingDisabled(cfg) == ~ConfigGet(cfg, "ENABLE_AUTO_TRADING", FALSE)

(* the cap test off by one *)
AtCap_Never(idx, cap) == FALSE
AtCap_OffByOne(idx, cap) == idx > cap

(* line 100: the session cap is reached *)
AtCap(idx, cap) == idx >= cap

(* the validity test left out *)
Skipped_Never(validation_result) == FALSE

(* lines 111-113: a recommendation whose validation is not valid is skipped *)
Skipped(validation_result) == ~validation_result.valid

Range(seq) == {seq[k] : k \in 1..Len(seq)}

Init ==
    /\ pc = "idle"
    /\ recommendations = <<>>
    /\ client \in Clients
    /\ config \in Configs
    /\ dry_run = TRUE
    /\ max_trades = 0
    /\ sorted_recommendations = <<>>
    /\ i = 0
    /\ executed_trades = <<>>
    /\ outcome = "none"
    /\ validation = None
    /\ history = <<>>
    /\ calls = NoCalls
    /\ fn = None
    /\ run = None

(* execute_trades, lines 75-98: up to the loop *)
Call ==
    /\ pc = "idle"
    /\ \E recs \in RecLists :
         /\ recommendations' = recs
         /\ dry_run' = ConfigGet(config, "DRY_RUN", TRUE)
         /\ IF AutoTradingDisabled(config)
            THEN /\ pc' = "done"
                 /\ outcome' = "returned"
                 /\ UNCHANGED <<sorted_recommendations, max_trades>>
            ELSE /\ pc' = "loop"
                 /\ outcome' = "none"
                 /\ sorted_recommendations' = SortByPriority(recs)
                 /\ max_trades' = ConfigGet(config, "MAX_TRADES_PER_SESSION", DefaultMaxTradesPerSession)
    /\ UNCHANGED <<client, config, i, executed_trades, validation, history, calls, fn, run>>

(* The account after the broker has filled an order of quantity shares at
   the last price: the position and the cash move, a position sold out is
   no longer reported *)
Filled(portfolio, trade) ==
    LET value == trade.quantity * LastPrice[trade.symbol]
        sign == IF trade.action = "BUY" THEN 1 ELSE -1
        held == \E k \in 1..Len(portfolio.positions) :
                    portfolio.positions[k].symbol = trade.symbol
        moved == [k \in 1..Len(portfolio.positions) |->
                     LET position == portfolio.positions[k]
                     IN IF position.symbol = trade.symbol
                        THEN Pos(position.symbol, position.quantity + sign * trade.quantity,
                                 position.market_value + sign * value)
                        ELSE position]
        positions == IF held THEN SelectSeq(moved, LAMBDA position : position.quantity # 0)
                     ELSE Append(portfolio.positions, Pos(trade.symbol, trade.quantity, value))
    IN [account_value |-> portfolio.account_value,
        cash_balance |-> portfolio.cash_balance - sign * value,
        positions |-> positions]

(* What the brokerage reports when the next recommendation is validated:
   the account as it was, or, when the order of the iteration before was
   accepted by the broker, the account after its fill; a dry run sends no
   order *)
Reported(portfolio, done) ==
    {portfolio} \cup
    (IF done # <<>> /\ ~IsNone(done[Len(done)].trade)
        /\ Val(done[Len(done)].trade).status = "completed"
     THEN {Filled(portfolio, Val(done[Len(done)].trade))}
     ELSE {})

(* lines 125-126: time.sleep(1) after a trade was appended, unless the
   recommendation was the last of the list *)
Cooldown_NotBeforeLast(appended, idx, n) == appended /\ idx < n - 2

Cooldown(appended, idx, n) == appended /\ idx < n - 1

(* validate_trade asks the client for the portfolio: the account the
   brokerage reports at that moment *)
FetchedFrom_SessionSnapshot(cl, account, done) ==
    IF done = <<>> THEN [cl EXCEPT !.portfolio = account]
    ELSE [cl EXCEPT !.portfolio = done[1].account]

FetchedFrom(cl, account, done) == [cl EXCEPT !.portfolio = account]

(* execute_trades, lines 99-129: one iteration of the loop.  validated is
   what validate_trade returned (None when it raised), submitted is whether
   execute_single_trade was called, appended whether it returned a trade. *)
Iterate ==
    /\ pc = "loop"
    /\ i < Len(sorted_recommendations)
    /\ ~AtCap(i, max_trades)
    /\ \E g \in GatewayOutcomes, account \in Reported(client.portfolio, history) :
         LET recommendation == sorted_recommendations[i + 1]
             validation_result == validate_trade(recommendation,
                                                 FetchedFrom(client, account, history),
                                                 config, g)
             returned == validation_result.exc = "none"
             submitted == returned /\ ~Skipped(validation_result)
             quantity == validation_result.quantity
             account_id == IF "SCHWAB_ACCOUNT_ID" \in DOMAIN config
                           THEN Some(config["SCHWAB_ACCOUNT_ID"]) ELSE None
             single == execute_single_trade(recommendation, quantity, client, account_id, dry_run, g)
             exc == IF ~returned THEN validation_result.exc
                    ELSE IF submitted THEN single.exc ELSE "none"
             appended == submitted /\ single.exc = "none"
             gatewayError == validation_result.gatewayError \/ (submitted /\ single.exc # "none")
         IN /\ client' = [client EXCEPT !.portfolio = account]
            /\ validation' = Some([recommendation |-> recommendation, answers |-> g,
                                   result |-> validation_result, exc |-> exc,
                                   gatewayError |-> gatewayError,
                                   brokerAnswer |-> IF submitted /\ single.brokerCalls > 0
                                                    THEN g.order ELSE "none",
                                   slept |-> Cooldown(appended, i, Len(sorted_recommendations))])
            /\ executed_trades' = IF appended THEN Append(executed_trades, Val(single.trade))
                                  ELSE executed_trades
            /\ calls' = [methods |-> calls.methods \cup {"validate_trade"}
                                       \cup Range(validation_result.stages)
                                       \cup (IF submitted
                                             THEN {"execute_single_trade", "create_equity_order",
                                                   "place_order"}
                                             ELSE {}),
                         broker |-> calls.broker + (IF submitted THEN single.brokerCalls ELSE 0),
                         failed |-> calls.failed \/ gatewayError]
            /\ history' = Append(history,
                   [recommendation |-> recommendation,
                    account |-> account,
                    validated |-> IF returned
                                  THEN Some([valid |-> validation_result.valid,
                                             quantity |-> validation_result.quantity])
                                  ELSE None,
                    order |-> IF submitted THEN Some(single.request) ELSE None,
                    trade |-> IF appended THEN single.trade ELSE None,
                    slept |-> Cooldown(appended, i, Len(sorted_recommendations))])
            /\ IF exc = "none" \/ LoopCatches(exc)
               THEN /\ i' = i + 1
                    /\ UNCHANGED <<pc, outcome>>
               ELSE /\ pc' = "done"
                    /\ outcome' = "raised"
                    /\ UNCHANGED i
    /\ UNCHANGED <<recommendations, config, dry_run, max_trades, sorted_recommendations, fn, run>>

(* execute_trades, lines 100-102 and 131-132: the loop ends, at the cap or at
   the end of the list, and the list of executed trades is returned *)
Return ==
    /\ pc = "loop"
    /\ (i >= Len(sorted_recommendations) \/ AtCap(i, max_trades))
    /\ pc' = "done"
    /\ outcome' = "returned"
    /\ validation' = None
    /\ UNCHANGED <<recommendations, client, config, dry_run, max_trades,
                   sorted_recommendations, i, executed_trades, history, calls, fn, run>>

Next == Call \/ Iterate \/ Return

Spec == Init /\ [][Next]_vars

TypeOK ==
    /\ pc \in {"idle", "loop", "done"}
    /\ outcome \in {"none", "returned", "raised"}
    /\ i \in 0..MaxRecs
    /\ Len(history) = i

----------------------------------------------------------------------------
(* Properties of execute_trades and validate_trade *)

AutoTradingOff ==
    "ENABLE_AUTO_TRADING" \notin DOMAIN config \/ config["ENABLE_AUTO_TRADING"] = FALSE

DryRunConfigured ==
    "DRY_RUN" \notin DOMAIN config \/ config["DRY_RUN"] = TRUE

SessionCap ==
    IF "MAX_TRADES_PER_SESSION" \in DOMAIN config
    THEN config["MAX_TRADES_PER_SESSION"] ELSE DefaultMaxTradesPerSession

Min(a, b) == IF a <= b THEN a ELSE b

IsPrefix(s, t) == Len(s) <= Len(t) /\ s = SubSeq(t, 1, Len(s))

(* the trades of the iterations that appended one, in order *)
TradesOf(h) ==
    LET sel == SelectSeq(h, LAMBDA e : ~IsNone(e.trade))
    IN [k \in 1..Len(sel) |-> Val(sel[k].trade)]

(* what the validator's stages give for a recommendation against an account
   and the prices the brokerage reports; client.portfolio is the account
   reported to the iteration that just ran *)
ResolvedAgainst(rec, account) ==
    validate_quantity(rec, get_position_by_symbol(account, rec.symbol), account,
                      LastPrice[rec.symbol], config)
PositionOf(rec) == get_position_by_symbol(client.portfolio, rec.symbol)
Resolved(rec) == ResolvedAgainst(rec, client.portfolio)
ActionCheck(rec) ==
    IF rec.action = "BUY"
    THEN validate_buy(rec, client.portfolio, Resolved(rec).quantity, LastPrice[rec.symbol], config)
    ELSE validate_sell(rec, PositionOf(rec), Resolved(rec).quantity, config)

(* C1: when ENABLE_AUTO_TRADING is false or absent, execute_trades returns an
   empty list and makes no call of validate_trade nor of any client method,
   whatever the recommendations and the rest of the configuration *)
C1_DisabledIsNoOp ==
    (pc # "idle" /\ AutoTradingOff) =>
        /\ pc = "done"
        /\ outcome = "returned"
        /\ executed_trades = <<>>
        /\ history = <<>>
        /\ calls = NoCalls

C1_Witness ==
    /\ pc = "done"
    /\ "ENABLE_AUTO_TRADING" \notin DOMAIN config
    /\ "DRY_RUN" \in DOMAIN config /\ config["DRY_RUN"] = FALSE
    /\ Len(recommendations) >= 2

(* C2: with DRY_RUN true or absent the broker's order endpoint is never
   called: every order request carries dry_run and is only logged *)
C2_DryRunNeverPlaces ==
    DryRunConfigured =>
        /\ calls.broker = 0
        /\ \A k \in 1..Len(history) :
             ~IsNone(history[k].order) => Val(history[k].order).dry_run

C2_Witness ==
    /\ pc = "done"
    /\ "DRY_RUN" \notin DOMAIN config
    /\ "create_equity_order" \in calls.methods
    /\ Len(executed_trades) >= 2

(* C3: a rejected validation, a validation that raises or an order submission
   that raises does not stop the loop: every recommendation inside the session
   cap is validated, every accepted one is submitted, and the call returns
   normally with the trades that succeeded *)
C3_PartialFailureIsolation ==
    /\ outcome # "raised"
    /\ (pc = "done" /\ ~AutoTradingOff) =>
          /\ outcome = "returned"
          /\ Len(history) = Min(Len(recommendations), SessionCap)
    /\ \A k \in 1..Len(history) :
          (~IsNone(history[k].validated) /\ Val(history[k].validated).valid)
              => ~IsNone(history[k].order)
    /\ executed_trades = TradesOf(history)

C3_Witness ==
    /\ pc = "done"
    /\ \E j, k \in 1..Len(history) :
          /\ j < k
          /\ ~IsNone(history[j].order) /\ IsNone(history[j].trade)
          /\ ~IsNone(history[k].trade)

(* C4: an order is submitted only for a recommendation that validate_trade
   found valid in the same iteration, with the quantity the validator
   resolved; a rejected recommendation gives no order and no ExecutedTrade *)
C4_OrderOnlyAfterValid ==
    \A k \in 1..Len(history) :
        LET e == history[k]
        IN /\ ~IsNone(e.order) =>
                /\ ~IsNone(e.validated) /\ Val(e.validated).valid
                /\ Val(e.order).symbol = e.recommendation.symbol
                /\ Val(e.order).quantity = Val(e.validated).quantity
                /\ Val(e.order).quantity = ResolvedAgainst(e.recommendation, e.account).quantity
           /\ ~IsNone(e.trade) =>
                /\ ~IsNone(e.order)
                /\ Val(e.trade).quantity = Val(e.validated).quantity
           /\ (IsNone(e.validated) \/ ~Val(e.validated).valid) =>
                IsNone(e.order) /\ IsNone(e.trade)

C4_Witness ==
    /\ pc = "done"
    /\ \E j, k \in 1..Len(history) :
          /\ ~IsNone(history[j].validated) /\ ~Val(history[j].validated).valid
          /\ ~IsNone(history[k].order) /\ ~IsNone(history[k].trade)

(* C5: at most MAX_TRADES_PER_SESSION recommendations are validated and at
   most that many trades returned; the validated ones are the first of the
   sorted list, and nothing is recorded for the others *)
C5_SessionCap ==
    /\ Len(history) <= SessionCap
    /\ Len(executed_trades) <= SessionCap
    /\ \A k \in 1..Len(history) :
          history[k].recommendation = SortByPriority(recommendations)[k]

C5_Witness ==
    /\ pc = "done"
    /\ SessionCap = 1
    /\ Len(recommendations) > SessionCap
    /\ Len(history) = 1
    /\ Len(executed_trades) = 1

(* C6: whatever the input order, the recommendations are validated in
   non-increasing order of priority, and the order requests and the returned
   trades follow that same order *)
C6_PriorityOrder ==
    /\ \A j, k \in 1..Len(history) :
          j < k => history[j].recommendation.priority >= history[k].recommendation.priority
    /\ \A k \in 1..Len(history) :
          \E n \in 1..Len(recommendations) : recommendations[n] = history[k].recommendation
    /\ executed_trades = TradesOf(history)

C6_Witness ==
    /\ pc = "done"
    /\ Len(recommendations) >= 2
    /\ recommendations[1].priority < recommendations[2].priority
    /\ Len(executed_trades) = 2
    /\ executed_trades[1].symbol = recommendations[2].symbol

(* C7: every returned trade is simulated, completed or failed; simulated,
   without order id and price, exactly in dry-run mode; in live mode completed
   exactly when the broker's answer carried an order id, failed otherwise *)
C7_TradeStatus ==
    /\ \A k \in 1..Len(executed_trades) :
          LET t == executed_trades[k]
          IN /\ t.status \in {"simulated", "completed", "failed"}
             /\ t.status = "simulated" <=> DryRunConfigured
             /\ t.status = "simulated" => IsNone(t.order_id) /\ IsNone(t.price)
             /\ t.status = "completed" => ~IsNone(t.order_id)
             /\ t.status = "failed" => IsNone(t.order_id)
    /\ (~IsNone(validation) /\ Val(validation).brokerAnswer \in {"orderId", "noOrderId"}) =>
          /\ executed_trades # <<>>
          /\ executed_trades[Len(executed_trades)].status =
                (IF Val(validation).brokerAnswer = "orderId" THEN "completed" ELSE "failed")

C7_Witness ==
    /\ pc = "done"
    /\ ~DryRunConfigured
    /\ \E j, k \in 1..Len(executed_trades) :
          executed_trades[j].status = "completed" /\ executed_trades[k].status = "failed"

(* C8 as stated: a gateway error raised by get_portfolio, get_quote or the
   order placement propagates to the caller of execute_trades *)
C8_GatewayErrorPropagates ==
    (pc = "done" /\ calls.failed) => outcome = "raised"

(* C8 amended: a gateway error raised by get_portfolio, get_quote or the order
   placement is caught inside the core and never reaches the caller: the
   iteration appends no trade, the loop goes on and execute_trades returns
   normally *)
C8_GatewayErrorContained ==
    /\ calls.failed => outcome # "raised"
    /\ (pc = "done" /\ calls.failed) => outcome = "returned"
    /\ (~IsNone(validation) /\ Val(validation).gatewayError) =>
          /\ pc = "loop"
          /\ IsNone(history[Len(history)].trade)
          /\ Val(validation).exc \in {"none", "TradeExecutionError"}

C8_Witness ==
    /\ pc = "done"
    /\ calls.failed
    /\ outcome = "returned"
    /\ executed_trades # <<>>

(* C9: validate_trade never raises for a BUY or SELL recommendation; every
   rejection is a result with valid = false and a non-empty reason *)
C9_ValidateNeverRaises ==
    ~IsNone(validation) =>
        /\ Val(validation).result.exc = "none"
        /\ ~Val(validation).result.valid => Val(validation).result.reason # ""

(* C10: validate_trade runs the symbol check, the quantity resolution and the
   action check in that order and stops at the first failure: a symbol absent
   from the quote answer ends it before the portfolio is fetched, a failed
   quantity resolution ends it before validate_buy/validate_sell, and valid
   is returned only when all three stages passed *)
FullStages(rec) ==
    <<"validate_symbol", "get_quote", "get_portfolio", "get_quote", "validate_quantity",
      IF rec.action = "BUY" THEN "validate_buy" ELSE "validate_sell">>

C10_StagesInOrder ==
    ~IsNone(validation) =>
        LET v == Val(validation)
            r == v.result
            rec == v.recommendation
        IN /\ IsPrefix(r.stages, FullStages(rec))
           /\ v.answers.quote1 = "absent" =>
                 ~r.valid /\ r.stages = <<"validate_symbol", "get_quote">>
           /\ ("validate_quantity" \in Range(r.stages) /\ ~Resolved(rec).valid) =>
                 ~r.valid /\ r.stages = SubSeq(FullStages(rec), 1, 5)
           /\ r.valid =>
                 /\ r.stages = FullStages(rec)
                 /\ v.answers.quote1 = "present"
                 /\ Resolved(rec).valid
                 /\ r.quantity = Resolved(rec).quantity
                 /\ ActionCheck(rec).valid

C10_Witness ==
    /\ ~IsNone(validation)
    /\ Len(history) = 2
    /\ ~IsNone(history[1].validated) /\ Val(history[1].validated).valid
    /\ Val(validation).result.stages = SubSeq(FullStages(Val(validation).recommendation), 1, 5)
    /\ ~Val(validation).result.valid

----------------------------------------------------------------------------
(* Portfolio as the analysis reads it (src/schwab/portfolio.py): a position  *)
(* carries its market value and the instrument data of its symbol; weights,  *)
(* sector allocations and the cash allocation are quotients of integers,     *)
(* kept exact as a numerator over a positive denominator.                    *)

Ratio(num, den) == [num |-> num, den |-> den]
Whole(n) == Ratio(n, 1)
RSub(a, b) == Ratio(a.num * b.den - b.num * a.den, a.den * b.den)
RMul(a, b) == Ratio(a.num * b.num, a.den * b.den)
(* a / b for b > 0 *)
RDiv(a, b) == Ratio(a.num * b.den, a.den * b.num)
RGt(a, b) == a.num * b.den > b.num * a.den
RGe(a, b) == a.num * b.den >= b.num * a.den
RMin(a, b) == IF RGt(a, b) THEN b ELSE a

(* int(x) in place of round(x), for x >= 0 *)
round_Truncate(x) == x.num \div x.den

(* Python's round(x): the nearest integer, a tie goes to the even one *)
round(x) ==
    LET q == x.num \div x.den
        r == x.num - q * x.den
    IN IF 2 * r < x.den THEN q
       ELSE IF 2 * r > x.den THEN q + 1
       ELSE IF q % 2 = 0 THEN q ELSE q + 1

(* instrument_data["fundamental"] of a symbol: sector and beta (in tenths),
   each absent or present; tests/test_trading.py gives AAPL and MSFT *)
InstrumentData ==
    [s \in {"AAPL", "MSFT", "VTI", "JNJ"} |->
        CASE s = "AAPL" -> [asset_type |-> "EQUITY", sector |-> Some("Technology"), beta |-> Some(12)]
          [] s = "MSFT" -> [asset_type |-> "EQUITY", sector |-> Some("Technology"), beta |-> Some(11)]
          [] s = "VTI"  -> [asset_type |-> "ETF", sector |-> None, beta |-> None]
          [] s = "JNJ"  -> [asset_type |-> "EQUITY", sector |-> Some("Healthcare"), beta |-> Some(7)]]

Position(symbol, market_value) ==
    [symbol |-> symbol, market_value |-> market_value,
     asset_type |-> InstrumentData[symbol].asset_type,
     sector |-> InstrumentData[symbol].sector,
     beta |-> InstrumentData[symbol].beta]

Portfolio(positions, account_value, cash_balance) ==
    [positions |-> positions, account_value |-> account_value, cash_balance |-> cash_balance]

(* _calculate_position_weights: market_value / account_value * 100 *)
weight(portfolio, position) ==
    IF portfolio.account_value = 0 THEN Whole(0)
    ELSE Ratio(100 * position.market_value, portfolio.account_value)

(* instrument_data.get('fundamental', {}).get('sector', 'Unknown') *)
SectorOf(position) == IF IsNone(position.sector) THEN "Unknown" ELSE Val(position.sector)

(* _get_sectors *)
sectors(portfolio) == {SectorOf(portfolio.positions[k]) : k \in 1..Len(portfolio.positions)}

RECURSIVE SumSeq(_)
SumSeq(seq) == IF seq = <<>> THEN 0 ELSE seq[1] + SumSeq(Tail(seq))

(* _calculate_sector_allocations: the allocation of one sector *)
sector_allocation(portfolio, sector) ==
    LET inSector == SelectSeq(portfolio.positions, LAMBDA p : SectorOf(p) = sector)
        sector_value == SumSeq([k \in 1..Len(inSector) |-> inSector[k].market_value])
    IN IF portfolio.account_value > 0
       THEN Ratio(100 * sector_value, portfolio.account_value) ELSE Whole(0)

cash_allocation(portfolio) ==
    IF portfolio.account_value > 0
    THEN Ratio(100 * portfolio.cash_balance, portfolio.account_value) ELSE Whole(0)

(* np.std(weights) > bound, for bound >= 0: n times the sum of squares minus
   the square of the sum, over n squared, is the variance *)
WeightStdAbove(portfolio, bound) ==
    LET n == Len(portfolio.positions)
        den == IF portfolio.account_value = 0 THEN 1 ELSE portfolio.account_value
        w == [k \in 1..n |-> weight(portfolio, portfolio.positions[k]).num]
        squares == SumSeq([k \in 1..n |-> w[k] * w[k]])
        total == SumSeq(w)
    IN n * squares - total * total > bound * bound * n * n * den * den

(* the first position of largest weight and the last of smallest weight:
   sorted(..., key=weight, reverse=True) is stable *)
LargestPosition(portfolio, positions) ==
    LET best == {k \in 1..Len(positions) :
                    \A j \in 1..Len(positions) :
                        RGe(weight(portfolio, positions[k]), weight(portfolio, positions[j]))}
    IN positions[CHOOSE k \in best : \A j \in best : k <= j]

SmallestPosition(portfolio, positions) ==
    LET least == {k \in 1..Len(positions) :
                    \A j \in 1..Len(positions) :
                        RGe(weight(portfolio, positions[j]), weight(portfolio, positions[k]))}
    IN positions[CHOOSE k \in least : \A j \in least : k >= j]

----------------------------------------------------------------------------
(* RiskAverseStrategy (src/trading/strategy.py).  A percentage is a Ratio. *)

DefaultRiskTolerance == 5
DefaultMaxSectorExposurePercent == 25

RECURSIVE Concat(_)
Concat(seqs) == IF seqs = <<>> THEN <<>> ELSE seqs[1] \o Concat(Tail(seqs))

_check_position_sizes(portfolio, max_position_size) ==
    Concat([k \in 1..Len(portfolio.positions) |->
        LET position == portfolio.positions[k] IN
            IF RGt(weight(portfolio, position), Whole(max_position_size))
            THEN LET excess_pct == RSub(weight(portfolio, position), Whole(max_position_size))
                     reduction_pct == RMul(RDiv(excess_pct, weight(portfolio, position)), Whole(100))
                 IN << Rec("SELL", position.symbol, None, Some(Whole(round(reduction_pct))), 10) >>
            ELSE <<>>])

(* sector_order is the order in which the dictionary of sector allocations,
   built from a Python set of strings, is iterated *)
_check_sector_exposures(portfolio, max_sector_exposure, sector_order) ==
    Concat([k \in 1..Len(sector_order) |->
        LET sector == sector_order[k] IN
            LET allocation == sector_allocation(portfolio, sector)
                sector_positions == SelectSeq(portfolio.positions, LAMBDA p : SectorOf(p) = sector)
            IN IF RGt(allocation, Whole(max_sector_exposure)) /\ sector_positions # <<>>
               THEN LET excess_pct == RSub(allocation, Whole(max_sector_exposure))
                        largest_position == LargestPosition(portfolio, sector_positions)
                        reduction_value == RMul(RDiv(excess_pct, Whole(100)),
                                                Whole(portfolio.account_value))
                        position_reduction_pct ==
                            round(RMin(RMul(RDiv(reduction_value,
                                                 Whole(largest_position.market_value)),
                                            Whole(100)),
                                       Whole(50)))
                    IN IF position_reduction_pct > 0
                       THEN << Rec("SELL", largest_position.symbol, None,
                                   Some(Whole(position_reduction_pct)), 9) >>
                       ELSE <<>>
               ELSE <<>>])

(* Portfolio.get_position_by_symbol on the positions the analysis reads *)
HasPosition(portfolio, symbol) ==
    \E k \in 1..Len(portfolio.positions) : portfolio.positions[k].symbol = symbol

_check_high_risk_positions(portfolio, position_risks, risk_tolerance) ==
    LET risk_threshold == 100 - risk_tolerance * 10
    IN Concat([k \in 1..Len(position_risks) |->
        LET position_risk == position_risks[k] IN
            IF position_risk.risk_score > risk_threshold
               /\ HasPosition(portfolio, position_risk.symbol)
            THEN LET excess_risk == position_risk.risk_score - risk_threshold
                     reduction_pct == round(Whole(Min(excess_risk, 50)))
                 IN IF reduction_pct > 0
                    THEN << Rec("SELL", position_risk.symbol, None,
                                Some(Whole(reduction_pct)), 8) >>
                    ELSE <<>>
            ELSE <<>>])

_check_cash_deployment(portfolio, cfg) ==
    LET risk_tolerance == ConfigGet(cfg, "RISK_TOLERANCE", DefaultRiskTolerance)
        \* max(5, 20 - risk_tolerance * 1.5)
        target_cash_pct == IF 40 - 3 * risk_tolerance > 10
                           THEN Ratio(40 - 3 * risk_tolerance, 2) ELSE Whole(5)
        current_cash_pct == cash_allocation(portfolio)
        excess_cash_pct == RSub(current_cash_pct, target_cash_pct)
        max_position_size == ConfigGet(cfg, "MAX_POSITION_SIZE_PERCENT", DefaultMaxPositionSizePercent)
        \* beta defaults to 1.5 (15 tenths)
        safe_small == SelectSeq(portfolio.positions,
                          LAMBDA position :
                              /\ \/ position.asset_type = "ETF"
                                 \/ (IF IsNone(position.beta) THEN 15 ELSE Val(position.beta)) < 10
                              /\ RGt(Ratio(max_position_size, 2), weight(portfolio, position)))
    IN IF RGt(current_cash_pct, Ratio(target_cash_pct.num + 10 * target_cash_pct.den,
                                      target_cash_pct.den))
       THEN IF Len(portfolio.positions) < 15
            THEN << Rec("BUY", "VTI", None, Some(RDiv(excess_cash_pct, Whole(2))), 5) >>
            ELSE IF safe_small # <<>>
            THEN << Rec("BUY", safe_small[1].symbol, None,
                        Some(RDiv(excess_cash_pct, Whole(3))), 5) >>
            ELSE <<>>
       ELSE <<>>

_check_rebalancing_opportunities(portfolio) ==
    IF Len(portfolio.positions) < 3 \/ ~WeightStdAbove(portfolio, 8)
    THEN <<>>
    ELSE LET largest_position == LargestPosition(portfolio, portfolio.positions)
             smallest_position == SmallestPosition(portfolio, portfolio.positions)
             largest == weight(portfolio, largest_position)
             smallest == weight(portfolio, smallest_position)
             weight_diff == RSub(largest, smallest)
             transfer_pct == round(RMul(weight_diff, Ratio(2, 10)))
         IN IF RGt(largest, RMul(Whole(3), smallest)) /\ RGt(smallest, Whole(0))
               /\ transfer_pct >= 5
            THEN << Rec("SELL", largest_position.symbol, None, Some(Whole(transfer_pct)), 6),
                    Rec("BUY", smallest_position.symbol, None, Some(Whole(transfer_pct)), 6) >>
            ELSE <<>>

(* generate_recommendations without the final sort *)
generate_recommendations_Unsorted(portfolio, analysis_results, cfg, sector_order) ==
    _check_rebalancing_opportunities(portfolio)
    \o _check_cash_deployment(portfolio, cfg)
    \o _check_high_risk_positions(portfolio, analysis_results.position_risks,
                                  ConfigGet(cfg, "RISK_TOLERANCE", DefaultRiskTolerance))
    \o _check_sector_exposures(portfolio,
           ConfigGet(cfg, "MAX_SECTOR_EXPOSURE_PERCENT", DefaultMaxSectorExposurePercent),
           sector_order)
    \o _check_position_sizes(portfolio,
           ConfigGet(cfg, "MAX_POSITION_SIZE_PERCENT", DefaultMaxPositionSizePercent))

(* RiskAverseStrategy.generate_recommendations: the five checks in order,
   then the stable sort by priority, highest first *)
generate_recommendations(portfolio, analysis_results, cfg, sector_order) ==
    LET risk_tolerance == ConfigGet(cfg, "RISK_TOLERANCE", DefaultRiskTolerance)
        max_position_size == ConfigGet(cfg, "MAX_POSITION_SIZE_PERCENT", DefaultMaxPositionSizePercent)
        max_sector_exposure == ConfigGet(cfg, "MAX_SECTOR_EXPOSURE_PERCENT",
                                         DefaultMaxSectorExposurePercent)
    IN SortByPriority(
           _check_position_sizes(portfolio, max_position_size)
           \o _check_sector_exposures(portfolio, max_sector_exposure, sector_order)
           \o _check_high_risk_positions(portfolio, analysis_results.position_risks, risk_tolerance)
           \o _check_cash_deployment(portfolio, cfg)
           \o _check_rebalancing_opportunities(portfolio))

----------------------------------------------------------------------------
(* Risk assessment (src/analysis/risk.py).  A score is a Ratio over 100: its *)
(* numerator is the score in hundredths of a point, each term rounded down   *)
(* to a hundredth.  The overall score is a Ratio over 10000.                 *)

Score(hundredths) == Ratio(hundredths, 100)

Max(a, b) == IF a >= b THEN a ELSE b

(* the numerators of the position weights and their common denominator *)
WeightNums(portfolio) ==
    [k \in 1..Len(portfolio.positions) |-> weight(portfolio, portfolio.positions[k]).num]

WeightDen(portfolio) == IF portfolio.account_value = 0 THEN 1 ELSE portfolio.account_value

(* the largest r in lo..hi with r * r <= x, for lo * lo <= x *)
RECURSIVE ISqrtBetween(_, _, _)
ISqrtBetween(lo, hi, x) ==
    IF lo >= hi THEN lo
    ELSE LET mid == (lo + hi + 1) \div 2
         IN IF mid * mid <= x THEN ISqrtBetween(mid, hi, x) ELSE ISqrtBetween(lo, mid - 1, x)

(* min(np.std(weights) * 2, 20) in hundredths: the variance of the weights
   is u / (n * den) ^ 2 * 10000 with u as below (weights are 100 * value / den) *)
StdFactor(portfolio) ==
    LET n == Len(portfolio.positions)
        den == WeightDen(portfolio)
        v == [k \in 1..n |-> WeightNums(portfolio)[k] \div 100]
        u == n * SumSeq([k \in 1..n |-> v[k] * v[k]]) - SumSeq(v) * SumSeq(v)
    IN IF 100 * u >= n * n * den * den THEN 2000
       ELSE (200 * ISqrtBetween(0, 10 * n * den, 10000 * u)) \div (n * den)

calculate_diversification_risk(portfolio) ==
    IF portfolio.positions = <<>> THEN Score(0)
    ELSE LET num_positions == Len(portfolio.positions)
             base_score == IF num_positions >= 20 THEN 0
                           ELSE IF num_positions >= 15 THEN 20
                           ELSE IF num_positions >= 10 THEN 40
                           ELSE IF num_positions >= 5 THEN 60
                           ELSE 80
             asset_types == {portfolio.positions[k].asset_type : k \in 1..num_positions}
             asset_type_factor == Max(0, 20 - Cardinality(asset_types) * 5)
             diversification_risk ==
                 100 * base_score + StdFactor(portfolio) + 100 * asset_type_factor
         IN Score(Min(diversification_risk, 10000))

(* normalized_hhi * 100 in hundredths, for the shares nums[k] / (100 * den):
   (hhi - 1/n) / (1 - 1/n) is (n * sum of squares - (100 * den)^2) over
   (n - 1) * (100 * den)^2 *)
NormalizedHHI(nums, den) ==
    LET n == Len(nums)
        squares == SumSeq([k \in 1..n |-> nums[k] * nums[k]])
    IN IF n > 1 THEN (n * squares - 10000 * den * den) \div ((n - 1) * den * den)
       ELSE 10000

(* the penalty of points for each percent over threshold, in hundredths *)
Penalty(nums, den, threshold, points) ==
    LET over == SelectSeq(nums, LAMBDA x : x > threshold * den)
    IN (100 * points * SumSeq([k \in 1..Len(over) |-> over[k] - threshold * den])) \div den

calculate_concentration_risk(portfolio) ==
    IF portfolio.positions = <<>> THEN Score(0)
    ELSE LET nums == WeightNums(portfolio)
             den == WeightDen(portfolio)
             concentration_risk == NormalizedHHI(nums, den) + Penalty(nums, den, 10, 2)
         IN Score(Min(concentration_risk, 10000))

calculate_sector_risk(portfolio, sector_order) ==
    IF portfolio.positions = <<>> THEN Score(0)
    ELSE LET nums == [k \in 1..Len(sector_order) |->
                         sector_allocation(portfolio, sector_order[k]).num]
             den == IF portfolio.account_value > 0 THEN portfolio.account_value ELSE 1
             sector_risk == NormalizedHHI(nums, den) + Penalty(nums, den, 25, 3)
         IN Score(Min(sector_risk, 10000))

(* the weighted average of factors over the positions known, renormalised
   when their weights sum to less than 1, times scale, in hundredths and
   capped between 0 and 100; 50 when no weight is known *)
WeightedAverageRisk(portfolio, known, factors, scale) ==
    LET den == WeightDen(portfolio)
        counted == portfolio.account_value # 0
        total == IF counted THEN SumSeq([k \in 1..Len(known) |-> known[k].market_value]) ELSE 0
        weighted == IF counted
                    THEN SumSeq([k \in 1..Len(known) |-> known[k].market_value * factors[k]])
                    ELSE 0
    IN IF total = 0 THEN Score(5000)
       ELSE Score(Max(0, Min((scale * weighted) \div (IF total < den THEN total ELSE den), 10000)))

(* beta is in tenths: 50 * beta is 500 hundredths per tenth *)
calculate_market_risk(portfolio) ==
    LET known == SelectSeq(portfolio.positions, LAMBDA p : ~IsNone(p.beta))
    IN WeightedAverageRisk(portfolio, known,
                           [k \in 1..Len(known) |-> Val(known[k].beta)], 500)

(* historical_data gives the annualised volatility of a symbol in percent:
   volatility / 0.4 * 100 is 250 hundredths per percent *)
calculate_volatility_risk(portfolio, historical_data) ==
    LET known == SelectSeq(portfolio.positions, LAMBDA p : p.symbol \in DOMAIN historical_data)
    IN WeightedAverageRisk(portfolio, known,
                           [k \in 1..Len(known) |-> historical_data[known[k].symbol]], 250)

calculate_position_risk(position, portfolio) ==
    LET w == weight(portfolio, position)
        size_risk == IF RGt(w, Whole(15)) THEN 10000
                     ELSE IF RGt(w, Whole(10)) THEN 5000 + (1000 * (w.num - 10 * w.den)) \div w.den
                     ELSE IF RGt(w, Whole(5)) THEN (1000 * (w.num - 5 * w.den)) \div w.den
                     ELSE 0
        beta_risk == IF IsNone(position.beta) THEN 5000
                     ELSE Max(0, Min(Val(position.beta) * 500, 10000))
        allocation == sector_allocation(portfolio, SectorOf(position))
        sector_risk == IF RGt(allocation, Whole(25))
                       THEN 5000 + (200 * (allocation.num - 25 * allocation.den)) \div allocation.den
                       ELSE (200 * allocation.num) \div allocation.den
        risk_score == (40 * size_risk + 40 * beta_risk + 20 * sector_risk) \div 100
    IN Score(Min(risk_score, 10000))

(* if historical_data: None and the empty dictionary are false *)
Supplied(historical_data) == ~IsNone(historical_data) /\ DOMAIN Val(historical_data) # {}

(* calculate_portfolio_risk: risk_metrics is created with the key
   "volatility_risk" (value 0), so the test "volatility_risk" in risk_metrics
   of line 78 is true on every call and the overall score is always the one
   of lines 80-81 *)
calculate_portfolio_risk(portfolio, historical_data, sector_order) ==
    LET diversification_risk == calculate_diversification_risk(portfolio)
        concentration_risk == calculate_concentration_risk(portfolio)
        sector_risk == calculate_sector_risk(portfolio, sector_order)
        market_risk == calculate_market_risk(portfolio)
        volatility_risk == IF Supplied(historical_data)
                           THEN calculate_volatility_risk(portfolio, Val(historical_data))
                           ELSE Score(0)
    IN [diversification_risk |-> diversification_risk,
        concentration_risk |-> concentration_risk,
        sector_risk |-> sector_risk,
        market_risk |-> market_risk,
        volatility_risk |-> volatility_risk,
        position_risks |-> [k \in 1..Len(portfolio.positions) |->
                               [symbol |-> portfolio.positions[k].symbol,
                                risk_score |-> calculate_position_risk(portfolio.positions[k], portfolio),
                                weight |-> weight(portfolio, portfolio.positions[k]),
                                beta |-> portfolio.positions[k].beta]],
        overall_risk_score |->
            Ratio(20 * diversification_risk.num + 20 * concentration_risk.num
                  + 15 * sector_risk.num + 25 * market_risk.num
                  + 20 * volatility_risk.num, 10000)]

----------------------------------------------------------------------------
(* Direct calls of the validators, the strategy and the risk assessment:    *)
(* the arguments are drawn from bounded sets, the call computes the result. *)

MaxShares == 6          \* largest held quantity handed to validate_sell
MaxPositions == 3       \* most positions of a portfolio handed to the strategy and the risk assessment

(* a call: its arguments, what it returned, and the arguments as the call
   left them when the function writes to one *)
FnCall(op, args) == [op |-> op, args |-> args, result |-> None, after |-> None]

OptPercent(values) == {None} \cup {Some(v) : v \in values}

(* arguments of validate_buy: the buys of tests/test_trading.py (5 and 50
   VTI at 220, 10 MSFT at 250) and their neighbours *)
BuyQuantities == {1, 5, 6, 9, 10, 50}

BuyConfigs ==
    { Entry("MIN_CASH_RESERVE_PERCENT", r) @@ Entry("MAX_POSITION_SIZE_PERCENT", m) :
        r \in OptPercent({0, 5, 20}), m \in OptPercent({25, 100}) }

ValidateBuyCalls ==
    { FnCall("validate_buy",
             [recommendation |-> Rec("BUY", symbol, Some(quantity), None, 5),
              portfolio |-> portfolio, quantity |-> quantity,
              current_price |-> LastPrice[symbol], config |-> cfg]) :
        symbol \in DOMAIN LastPrice, portfolio \in Portfolios,
        quantity \in BuyQuantities, cfg \in BuyConfigs }

(* arguments of validate_sell *)
SellConfigs == { Entry("MIN_POSITION_SIZE", m) : m \in OptPercent({1, 3}) }

HeldPositions == {None} \cup {Some(Pos("AAPL", h, 170 * h)) : h \in 1..MaxShares}

ValidateSellCalls ==
    { FnCall("validate_sell",
             [recommendation |-> Rec("SELL", "AAPL", Some(quantity), None, 5),
              position |-> position, quantity |-> quantity, config |-> cfg]) :
        position \in HeldPositions, quantity \in 1..(MaxShares + 1), cfg \in SellConfigs }

(* arguments of validate_quantity: VTI at 220 (tests/test_trading.py), with
   a long position, a short one, or none *)
QuantityConfigs ==
    { Entry("MIN_TRADE_QUANTITY", lo) @@ Entry("MAX_TRADE_QUANTITY", hi) :
        lo \in OptPercent({0, 5}), hi \in OptPercent({0, 3}) }

QuantityRecs ==
    { Rec(action, "VTI", quantity, percentage, 5) :
        action \in {"BUY", "SELL"},
        quantity \in OptPercent({0, 5, 10, 100}),
        percentage \in OptPercent({30, 100}) }

QuantityPositions == {None, Some(Pos("VTI", 10, 2200)), Some(Pos("VTI", -2, -440))}

ValidateQuantityCalls ==
    { FnCall("validate_quantity",
             [recommendation |-> recommendation, position |-> position,
              portfolio |-> portfolio, current_price |-> LastPrice["VTI"],
              config |-> cfg]) :
        recommendation \in QuantityRecs, position \in QuantityPositions,
        portfolio \in Portfolios, cfg \in QuantityConfigs }

(* arguments of generate_recommendations: portfolios of up to MaxPositions
   positions of distinct symbols, in every order, in an account of value 100
   whose cash is what the positions leave (tests/test_trading.py has the
   weights 34 and 25 and the empty portfolio) *)
MarketValues == {5, 25, 34}

AccountValue == 100

PositionLists ==
    UNION { { [k \in 1..n |-> Position(symbols[k], values[k])] :
                symbols \in {f \in [1..n -> DOMAIN InstrumentData] :
                                \A x, y \in 1..n : x # y => f[x] # f[y]},
                values \in [1..n -> MarketValues] } :
            n \in 0..MaxPositions }

AnalysedPortfolios ==
    { Portfolio(positions, AccountValue,
                AccountValue - SumSeq([k \in 1..Len(positions) |-> positions[k].market_value])) :
        positions \in {ps \in PositionLists :
                          SumSeq([k \in 1..Len(ps) |-> ps[k].market_value]) <= AccountValue} }

(* no configuration, the one of tests/test_trading.py, and a lenient one *)
StrategyConfigs ==
    { <<>>,
      ("RISK_TOLERANCE" :> 3) @@ ("MAX_POSITION_SIZE_PERCENT" :> 25)
          @@ ("MAX_SECTOR_EXPOSURE_PERCENT" :> 40),
      ("RISK_TOLERANCE" :> 8) @@ ("MAX_POSITION_SIZE_PERCENT" :> 33)
          @@ ("MAX_SECTOR_EXPOSURE_PERCENT" :> 60) }

(* analysis_results["risk_metrics"]["position_risks"]: none, or the report
   of tests/test_trading.py *)
AnalysisResults ==
    { [position_risks |-> <<>>],
      [position_risks |-> << [symbol |-> "AAPL", risk_score |-> 75],
                             [symbol |-> "MSFT", risk_score |-> 65] >>] }

(* one position of 25.1% of the account, a tenth of a point over the
   limit of tests/test_trading.py *)
MarginalPortfolios ==
    { Portfolio(<<Position(symbol, 251)>>, 1000, 749) : symbol \in {"AAPL", "VTI"} }

GenerateRecommendationsCalls ==
    { FnCall("generate_recommendations",
             [portfolio |-> portfolio, analysis_results |-> analysis_results, config |-> cfg]) :
        portfolio \in AnalysedPortfolios \cup MarginalPortfolios,
        analysis_results \in AnalysisResults,
        cfg \in StrategyConfigs }

(* historical_data: not supplied, empty, or the annualised volatility in
   percent of some symbols *)
HistoricalData ==
    { None, Some(<<>>), Some("AAPL" :> 30),
      Some(("AAPL" :> 30) @@ ("MSFT" :> 60) @@ ("VTI" :> 15) @@ ("JNJ" :> 10)) }

CalculatePortfolioRiskCalls ==
    { FnCall("calculate_portfolio_risk",
             [portfolio |-> portfolio, historical_data |-> historical_data]) :
        portfolio \in AnalysedPortfolios, historical_data \in HistoricalData }

(* margin accounts: the positions are worth more than the account, whose
   cash balance is the debit *)
MarginPortfolios ==
    { Portfolio(positions, AccountValue \div 2,
                (AccountValue \div 2)
                    - SumSeq([k \in 1..Len(positions) |-> positions[k].market_value])) :
        positions \in {ps \in PositionLists :
                          SumSeq([k \in 1..Len(ps) |-> ps[k].market_value])
                              > AccountValue \div 2} }

CalculateMarketRiskCalls ==
    { FnCall("calculate_market_risk", [portfolio |-> portfolio]) :
        portfolio \in AnalysedPortfolios \cup MarginPortfolios }

FnCalls ==
    ValidateBuyCalls \cup ValidateSellCalls \cup ValidateQuantityCalls
    \cup GenerateRecommendationsCalls \cup CalculatePortfolioRiskCalls
    \cup CalculateMarketRiskCalls

FnInit ==
    /\ pc = "idle"
    /\ recommendations = <<>>
    /\ client = [primary_account_id |-> Some("ACCT"), portfolio |-> TestPortfolio]
    /\ config = <<>>
    /\ dry_run = TRUE
    /\ max_trades = 0
    /\ sorted_recommendations = <<>>
    /\ i = 0
    /\ executed_trades = <<>>
    /\ outcome = "none"
    /\ validation = None
    /\ history = <<>>
    /\ calls = NoCalls
    /\ fn \in FnCalls
    /\ run = None

Returns(op, value) ==
    /\ fn.op = op
    /\ IsNone(fn.result)
    /\ fn' = [fn EXCEPT !.result = Some(value)]
    /\ UNCHANGED <<executorVars, run>>

ValidateBuy ==
    Returns("validate_buy",
               validate_buy(fn.args.recommendation, fn.args.portfolio, fn.args.quantity,
                            fn.args.current_price, fn.args.config))

ValidateSell ==
    Returns("validate_sell",
               validate_sell(fn.args.recommendation, fn.args.position, fn.args.quantity,
                             fn.args.config))

ValidateQuantity ==
    Returns("validate_quantity",
               validate_quantity(fn.args.recommendation, fn.args.position, fn.args.portfolio,
                                 fn.args.current_price, fn.args.config))

(* the orders in which a set can be iterated *)
Orders(S) == {f \in [1..Cardinality(S) -> S] : \A x, y \in 1..Cardinality(S) : x # y => f[x] # f[y]}

GenerateRecommendations ==
    /\ fn.op = "generate_recommendations"
    /\ \E sector_order \in Orders(sectors(fn.args.portfolio)) :
        Returns("generate_recommendations",
                generate_recommendations(fn.args.portfolio, fn.args.analysis_results,
                                         fn.args.config, sector_order))

(* the frame of a symbol: its columns, and the annualised volatility of
   its closing prices *)
DataFrame(columns, volatility) == [columns |-> columns, volatility |-> volatility]

(* the caller's frames hold the closing prices *)
Frames(historical_data) ==
    IF IsNone(historical_data) THEN None
    ELSE Some([symbol \in DOMAIN Val(historical_data) |->
                  DataFrame({"close"}, Val(historical_data)[symbol])])

(* df['return'] = df['close'].pct_change() writes the column into the frame
   of each position that has one *)
calculate_volatility_risk_Frames(portfolio, frames) ==
    [symbol \in DOMAIN frames |->
        IF (\E k \in 1..Len(portfolio.positions) : portfolio.positions[k].symbol = symbol)
              /\ "close" \in frames[symbol].columns
        THEN [frames[symbol] EXCEPT !.columns = @ \cup {"return"}]
        ELSE frames[symbol]]

calculate_portfolio_risk_Frames(portfolio, historical_data) ==
    IF Supplied(historical_data)
    THEN Some(calculate_volatility_risk_Frames(portfolio, Val(Frames(historical_data))))
    ELSE Frames(historical_data)

CalculatePortfolioRisk ==
    /\ fn.op = "calculate_portfolio_risk"
    /\ IsNone(fn.result)
    /\ \E sector_order \in Orders(sectors(fn.args.portfolio)) :
        fn' = [fn EXCEPT
                 !.result = Some(calculate_portfolio_risk(fn.args.portfolio,
                                                          fn.args.historical_data,
                                                          sector_order)),
                 !.after = Some([portfolio |-> fn.args.portfolio,
                                 historical_data |->
                                     calculate_portfolio_risk_Frames(fn.args.portfolio,
                                                                     fn.args.historical_data)])]
    /\ UNCHANGED <<executorVars, run>>

CalculateMarketRisk ==
    /\ fn.op = "calculate_market_risk"
    /\ Returns("calculate_market_risk", calculate_market_risk(fn.args.portfolio))

FnNext ==
    \/ ValidateBuy
    \/ ValidateSell
    \/ ValidateQuantity
    \/ GenerateRecommendations
    \/ CalculatePortfolioRisk
    \/ CalculateMarketRisk

FnSpec == FnInit /\ [][FnNext]_vars

(* the call of op has returned *)
Returned(op) == fn.op = op /\ ~IsNone(fn.result)

----------------------------------------------------------------------------
(* Properties of validate_buy *)

(* cash_balance - cost is below MIN_CASH_RESERVE_PERCENT of account_value *)
BelowReserve(a) ==
    LET reserve == ConfigGet(a.config, "MIN_CASH_RESERVE_PERCENT", DefaultMinCashReservePercent)
    IN (a.portfolio.cash_balance - a.quantity * a.current_price) * 100
           < reserve * a.portfolio.account_value

Rejected(r) == ~r.valid /\ r.exc = "none"

(* C11: validate_buy rejects a buy whose cost exceeds the cash balance and a
   buy that would leave less cash than MIN_CASH_RESERVE_PERCENT of the account
   value; a buy it accepts leaves at least the reserve. *)
C11_BuyKeepsCashReserve ==
    Returned("validate_buy") =>
        LET a == fn.args
            r == Val(fn.result)
        IN /\ a.quantity * a.current_price > a.portfolio.cash_balance => Rejected(r)
           /\ BelowReserve(a) => Rejected(r)
           /\ r.valid => ~BelowReserve(a)

C11_Witness ==
    /\ Returned("validate_buy")
    /\ Val(fn.result).valid
    /\ fn.args.quantity * fn.args.current_price > 0

(* the weight the position of the bought symbol would have after the buy,
   (existing value + cost) / (account value + cost - existing value) * 100,
   exceeds MAX_POSITION_SIZE_PERCENT *)
ExceedsMaxSize(a) ==
    LET existing_position == get_position_by_symbol(a.portfolio, a.recommendation.symbol)
        existing_value == IF IsNone(existing_position) THEN 0 ELSE Val(existing_position).market_value
        cost == a.quantity * a.current_price
        total == a.portfolio.account_value + cost - existing_value
        limit == ConfigGet(a.config, "MAX_POSITION_SIZE_PERCENT", DefaultMaxPositionSizePercent)
    IN total > 0 /\ (existing_value + cost) * 100 > limit * total

(* C12: whenever the weight of the position after the buy would exceed
   MAX_POSITION_SIZE_PERCENT, validate_buy rejects with the "maximum size"
   reason, whether or not the cash suffices. *)
C12_MaxSizeIndependentOfCash ==
    (Returned("validate_buy") /\ ExceedsMaxSize(fn.args)) =>
        /\ Rejected(Val(fn.result))
        /\ Val(fn.result).reason = "Trade would create position exceeding maximum size"

----------------------------------------------------------------------------
(* Properties of validate_sell *)

(* C13: validate_sell rejects when there is no position, when the quantity
   exceeds the held quantity and when the sale leaves a nonzero remainder
   below MIN_POSITION_SIZE; it accepts a sale that closes the position or
   leaves at least the minimum. *)
C13_SellLeavesMinimumOrCloses ==
    Returned("validate_sell") =>
        LET a == fn.args
            r == Val(fn.result)
            minimum == ConfigGet(a.config, "MIN_POSITION_SIZE", DefaultMinPositionSize)
        IN IF IsNone(a.position) THEN Rejected(r)
           ELSE LET held == Val(a.position).quantity
                    remainder == held - a.quantity
                IN /\ a.quantity > held => Rejected(r)
                   /\ (0 < remainder /\ remainder < minimum) => Rejected(r)
                   /\ (remainder = 0 \/ remainder >= minimum) => r.valid /\ r.exc = "none"

C13_Witness ==
    /\ Returned("validate_sell")
    /\ ~IsNone(fn.args.position)
    /\ Val(fn.args.position).quantity - fn.args.quantity \in 1..2
    /\ ConfigGet(fn.args.config, "MIN_POSITION_SIZE", DefaultMinPositionSize) = 3
    /\ ~Val(fn.result).valid

----------------------------------------------------------------------------
(* Properties of validate_quantity *)

MinTradeQuantity(cfg) == ConfigGet(cfg, "MIN_TRADE_QUANTITY", DefaultMinTradeQuantity)
MaxTradeQuantity(cfg) == ConfigGet(cfg, "MAX_TRADE_QUANTITY", DefaultMaxTradeQuantity)

(* The reference resolution: the quantity before the limits, or None when
   the recommendation is rejected before them (a sale without a position or
   of more than is held, a computed quantity that is not positive). *)
ReferenceQuantity(a) ==
    LET rec == a.recommendation
        sell == rec.action = "SELL"
        cash == a.portfolio.cash_balance
        Positive(q) == IF q > 0 THEN Some(q) ELSE None
    IN IF ~IsNone(rec.quantity)
       THEN IF sell /\ (IsNone(a.position) \/ Val(rec.quantity) > Val(a.position).quantity)
            THEN None ELSE rec.quantity
       ELSE IF sell /\ IsNone(a.position) THEN None
       ELSE IF ~IsNone(rec.percentage)
       THEN IF sell THEN Positive((Val(a.position).quantity * Val(rec.percentage)) \div 100)
            ELSE Positive((cash * Val(rec.percentage)) \div (100 * a.current_price))
       ELSE IF sell THEN Some(Val(a.position).quantity)
            ELSE Positive((cash * 5) \div (100 * a.current_price))

(* the reference result: the resolved quantity clamped to MAX_TRADE_QUANTITY,
   then rejected if below MIN_TRADE_QUANTITY *)
ReferenceResult(a) ==
    LET resolved == ReferenceQuantity(a)
        clamped == Min(Val(resolved), MaxTradeQuantity(a.config))
    IN IF IsNone(resolved) \/ clamped < MinTradeQuantity(a.config) THEN None ELSE Some(clamped)

(* C14: validate_quantity agrees with the reference resolution (explicit
   quantity, else percentage, else default; clamped to MAX_TRADE_QUANTITY and
   then rejected below MIN_TRADE_QUANTITY), so that every valid result has
   MIN_TRADE_QUANTITY <= quantity <= MAX_TRADE_QUANTITY. *)
C14_QuantityAgreesWithReference ==
    Returned("validate_quantity") =>
        LET a == fn.args
            r == Val(fn.result)
        IN /\ r.valid = ~IsNone(ReferenceResult(a))
           /\ r.valid => /\ r.quantity = Val(ReferenceResult(a))
                         /\ MinTradeQuantity(a.config) <= r.quantity
                         /\ r.quantity <= MaxTradeQuantity(a.config)

(* C15: validate_quantity rejects whenever the resolved quantity is not
   positive, for every action, explicit quantity or percentage, position
   and configured MIN_TRADE_QUANTITY and MAX_TRADE_QUANTITY. *)
C15_NonPositiveQuantityRejected ==
    Returned("validate_quantity") =>
        LET rec == fn.args.recommendation
            r == Val(fn.result)
        IN /\ (~IsNone(rec.quantity) /\ Val(rec.quantity) <= 0) => ~r.valid
           /\ r.valid => r.quantity > 0

(* C16: validate_quantity rejects a BUY with an explicit quantity whose cost
   at the current price exceeds the cash balance. *)
C16_ExplicitBuyBeyondCashRejected ==
    Returned("validate_quantity") =>
        LET a == fn.args
            rec == a.recommendation
        IN (/\ rec.action = "BUY"
            /\ ~IsNone(rec.quantity)
            /\ Val(rec.quantity) * a.current_price > a.portfolio.cash_balance)
           => ~Val(fn.result).valid

----------------------------------------------------------------------------
(* Properties of RiskAverseStrategy.generate_recommendations *)

(* C17: the list generate_recommendations returns is sorted by priority,
   highest first, for every portfolio, risk report and order of positions. *)
C17_RecommendationsSortedByPriority ==
    Returned("generate_recommendations") =>
        LET recs == Val(fn.result)
        IN \A k \in 1..(Len(recs) - 1) : recs[k].priority >= recs[k + 1].priority

C17_Witness ==
    /\ Returned("generate_recommendations")
    /\ \E j, k \in 1..Len(Val(fn.result)) :
          /\ Val(fn.result)[j].priority = 6
          /\ Val(fn.result)[k].priority = 10

Abs(x) == IF x < 0 THEN -x ELSE x

MaxPositionSize(cfg) == ConfigGet(cfg, "MAX_POSITION_SIZE_PERCENT", DefaultMaxPositionSizePercent)

(* the weight market_value / account_value * 100 exceeds limit *)
Oversize(portfolio, position, limit) ==
    100 * position.market_value > limit * portfolio.account_value

(* the priority-10 recommendations for symbol, as indices of recs *)
SizeLimitRecs(recs, symbol) ==
    {k \in 1..Len(recs) : recs[k].priority = 10 /\ recs[k].symbol = symbol}

(* n is an integer nearest to 100 * (weight - limit) / weight *)
NearestReduction(n, portfolio, position, limit) ==
    LET w == 100 * position.market_value          \* weight * account_value
        excess == w - limit * portfolio.account_value
    IN 2 * Abs(n * w - 100 * excess) <= w

(* C18: for every position whose weight exceeds MAX_POSITION_SIZE_PERCENT the
   strategy emits exactly one priority-10 SELL of that symbol, with the
   percentage round(100 * (weight - max) / weight), which is 26 for weight 34
   and max 25; for a position of weight at most max it emits none. *)
C18_SizeLimitRecommendation ==
    Returned("generate_recommendations") =>
        LET portfolio == fn.args.portfolio
            limit == MaxPositionSize(fn.args.config)
            recs == Val(fn.result)
        IN \A j \in 1..Len(portfolio.positions) :
              LET position == portfolio.positions[j]
                  emitted == SizeLimitRecs(recs, position.symbol)
              IN IF Oversize(portfolio, position, limit)
                 THEN /\ Cardinality(emitted) = 1
                      /\ \A k \in emitted :
                            /\ recs[k].action = "SELL"
                            /\ IsNone(recs[k].quantity)
                            /\ ~IsNone(recs[k].percentage)
                            /\ Val(recs[k].percentage).den = 1
                            /\ NearestReduction(Val(recs[k].percentage).num,
                                                portfolio, position, limit)
                            /\ (weight(portfolio, position) = Ratio(3400, 100) /\ limit = 25)
                                  => Val(recs[k].percentage).num = 26
                 ELSE emitted = {}

C18_Witness ==
    /\ Returned("generate_recommendations")
    /\ MaxPositionSize(fn.args.config) = 25
    /\ \E j, k \in 1..Len(fn.args.portfolio.positions) :
          /\ fn.args.portfolio.positions[j].market_value = 34
          /\ fn.args.portfolio.positions[k].market_value = 25
          /\ SizeLimitRecs(Val(fn.result), fn.args.portfolio.positions[k].symbol) = {}
          /\ \E r \in SizeLimitRecs(Val(fn.result), fn.args.portfolio.positions[j].symbol) :
                Val(Val(fn.result)[r].percentage) = Whole(26)

----------------------------------------------------------------------------
(* Properties of calculate_portfolio_risk *)

InRange(score) == RGe(score, Whole(0)) /\ RGe(Whole(100), score)

(* C19: the diversification, concentration, sector and volatility risk
   scores and the overall risk score lie in [0, 100] for every portfolio,
   also when the position weights sum to less than 100. *)
C19_RiskScoresInRange ==
    Returned("calculate_portfolio_risk") =>
        LET r == Val(fn.result)
        IN /\ InRange(r.diversification_risk)
           /\ InRange(r.concentration_risk)
           /\ InRange(r.sector_risk)
           /\ InRange(r.volatility_risk)
           /\ InRange(r.overall_risk_score)

(* C20: the overall score is 0.20 diversification + 0.20 concentration +
   0.15 sector + 0.25 market + 0.20 volatility when historical data was
   supplied, and 0.25 diversification + 0.25 concentration + 0.20 sector +
   0.30 market when it was not. *)
C20_OverallWeights ==
    Returned("calculate_portfolio_risk") =>
        LET r == Val(fn.result)
            d == r.diversification_risk.num
            c == r.concentration_risk.num
            s == r.sector_risk.num
            m == r.market_risk.num
            v == r.volatility_risk.num
        IN IF IsNone(fn.args.historical_data)
           THEN r.overall_risk_score = Ratio(25 * d + 25 * c + 20 * s + 30 * m, 10000)
           ELSE Supplied(fn.args.historical_data) =>
                   r.overall_risk_score
                       = Ratio(20 * d + 20 * c + 15 * s + 25 * m + 20 * v, 10000)

(* ------------------------------------------------------------------ *)
(* The session of execute_trades and the account                       *)

(* the iteration that just ran asked the client for the portfolio *)
Fetched == ~IsNone(validation) /\ "get_portfolio" \in Range(Val(validation).result.stages)

(* C25 (as stated): every validation of a session is evaluated against one
   portfolio snapshot, the account as the first validation of the session
   found it. *)
C25_OneSnapshotPerSession ==
    ~IsNone(validation) =>
        LET v == Val(validation)
        IN v.result = validate_trade(v.recommendation,
                                     [client EXCEPT !.portfolio = history[1].account],
                                     config, v.answers)

(* C25 (amended): validate_trade asks the client for the portfolio in every
   validation that gets past the symbol check, and the validation is
   evaluated against the account the brokerage reports at that moment. *)
C25_ValidatedAgainstReportedAccount ==
    ~IsNone(validation) =>
        LET v == Val(validation)
        IN /\ v.result = validate_trade(v.recommendation, client, config, v.answers)
           /\ v.answers.quote1 = "present" => Fetched

(* a later validation that found the account changed by an earlier order
   of the session *)
C25_Witness ==
    /\ Fetched
    /\ Len(history) >= 2
    /\ history[Len(history)].account # history[1].account
    /\ Val(validation).result.valid

(* the shares of symbol sold by the trades *)
RECURSIVE SoldQuantity(_, _)
SoldQuantity(trades, symbol) ==
    IF trades = <<>> THEN 0
    ELSE (IF trades[1].action = "SELL" /\ trades[1].symbol = symbol
          THEN trades[1].quantity ELSE 0)
         + SoldQuantity(Tail(trades), symbol)

HeldQuantity(portfolio, symbol) ==
    LET position == get_position_by_symbol(portfolio, symbol)
    IN IF IsNone(position) THEN 0 ELSE Val(position).quantity

(* C27: in a dry run, where the account the brokerage reports does not
   change during the session, the SELL trades accepted for one symbol
   never sell more shares together than the account held when the session
   started. *)
C27_SellsWithinHolding ==
    (dry_run /\ history # <<>>) =>
        \A symbol \in DOMAIN LastPrice :
            SoldQuantity(executed_trades, symbol)
                <= Max(0, HeldQuantity(history[1].account, symbol))

(* C26: a cooldown separates successive successful submissions: when a
   later recommendation is validated in the session, every iteration
   before it whose submission succeeded was followed by the cooldown. *)
C26_CooldownAfterSuccess ==
    \A j, k \in 1..Len(history) :
        (j < k /\ ~IsNone(history[j].trade)) => history[j].slept

(* two submissions succeeded, the cooldown between them *)
C26_Witness ==
    /\ Len(executed_trades) >= 2
    /\ \E j \in 1..Len(history) :
          /\ j < Len(history)
          /\ ~IsNone(history[j].trade)
          /\ history[j].slept
          /\ ~IsNone(history[Len(history)].trade)
          /\ ~history[Len(history)].slept

(* C29 (as stated): MAX_TRADES_PER_SESSION limits the executed trades, not
   the attempts: when execute_trades returns fewer trades than the cap,
   every recommendation of the list was validated. *)
C29_CapCountsExecutedTrades ==
    (outcome = "returned" /\ ~AutoTradingOff /\ Len(executed_trades) < SessionCap)
        => Len(history) = Len(sorted_recommendations)

(* C29 (amended): MAX_TRADES_PER_SESSION limits the attempts: when
   execute_trades returns, the recommendations it validated are as many as
   the cap allows of the list, whether they were rejected, failed or
   executed. *)
C29_CapCountsAttempts ==
    (outcome = "returned" /\ ~AutoTradingOff)
        => Len(history) = Min(SessionCap, Len(sorted_recommendations))

(* a rejected recommendation used the only slot and the next one was not
   tried *)
C29_Witness ==
    /\ outcome = "returned"
    /\ Len(executed_trades) < SessionCap
    /\ Len(history) < Len(sorted_recommendations)
    /\ \E k \in 1..Len(history) :
          ~IsNone(history[k].validated) /\ ~Val(history[k].validated).valid

(* ------------------------------------------------------------------ *)
(* The weight a buy leaves and the recommendations of the strategy     *)

(* C28: a BUY that validate_buy accepts leaves the position at no more
   than MAX_POSITION_SIZE_PERCENT of the account, its weight after the
   trade being (existing value + cost) / account value * 100. *)
C28_AcceptedBuyWithinMaxSize ==
    (Returned("validate_buy") /\ Val(fn.result).valid) =>
        LET a == fn.args
            existing_position == get_position_by_symbol(a.portfolio, a.recommendation.symbol)
            existing_value == IF IsNone(existing_position) THEN 0
                              ELSE Val(existing_position).market_value
            cost == a.quantity * a.current_price
            limit == ConfigGet(a.config, "MAX_POSITION_SIZE_PERCENT",
                               DefaultMaxPositionSizePercent)
        IN (existing_value + cost) * 100 <= limit * a.portfolio.account_value

(* C30: every Recommendation generate_recommendations returns has the
   action BUY or SELL, no explicit quantity and a percentage above 0, for
   every portfolio and limit. *)
C30_RecommendationsWellFormed ==
    Returned("generate_recommendations") =>
        \A k \in 1..Len(Val(fn.result)) :
            LET rec == Val(fn.result)[k]
            IN /\ rec.action \in {"BUY", "SELL"}
               /\ IsNone(rec.quantity)
               /\ ~IsNone(rec.percentage)
               /\ RGt(Val(rec.percentage), Whole(0))

(* ------------------------------------------------------------------ *)
(* A run of main (src/main.py): the portfolio is fetched, its positions   *)
(* are refreshed in place from the quotes, the weights are recalculated,  *)
(* the portfolio is analysed and the recommendations are generated.       *)

MaxHeld == 2            \* largest quantity of a position of the account main fetches
MaxHeldPositions == 2   \* most positions of the account main fetches

HeldSymbols == {"AAPL", "MSFT", "VTI"}

(* the price the gateway reports, the prices the quotes give and the cash
   of the account *)
MarketPrice == 10
QuotePrices == {10, 25}
CashBalances == {0, 40}

(* a Position object as get_portfolio builds it; weight is the default of
   the dataclass until the portfolio sets it *)
PositionObject(symbol, quantity, current_price) ==
    [symbol |-> symbol, quantity |-> quantity, current_price |-> current_price,
     market_value |-> quantity * current_price,
     sector |-> InstrumentData[symbol].sector,
     weight |-> Whole(0)]

(* _calculate_position_weights: every position's weight from its market value *)
_calculate_position_weights(portfolio) ==
    [portfolio EXCEPT !.positions =
        [k \in 1..Len(portfolio.positions) |->
            [portfolio.positions[k] EXCEPT !.weight = weight(portfolio, portfolio.positions[k])]]]

(* _calculate_sector_allocations: the mapping of the stored sectors *)
_calculate_sector_allocations(portfolio) ==
    [sector \in portfolio.sectors |-> sector_allocation(portfolio, sector)]

(* Portfolio.__post_init__: weights, sectors, sector allocations *)
PortfolioObject(positions, account_value, cash_balance) ==
    LET weighted == _calculate_position_weights(
                        [positions |-> positions, account_value |-> account_value,
                         cash_balance |-> cash_balance])
        withSectors == [positions |-> weighted.positions, account_value |-> account_value,
                        cash_balance |-> cash_balance, sectors |-> sectors(weighted)]
    IN [positions |-> withSectors.positions, account_value |-> account_value,
        cash_balance |-> cash_balance, sectors |-> withSectors.sectors,
        sector_allocations |-> _calculate_sector_allocations(withSectors)]

(* what the gateway can report: the liquidation value is the positions and
   the cash *)
HeldPositionLists ==
    UNION { { [k \in 1..n |-> PositionObject(symbols[k], quantities[k], MarketPrice)] :
                symbols \in {f \in [1..n -> HeldSymbols] :
                                \A x, y \in 1..n : x # y => f[x] # f[y]},
                quantities \in [1..n -> 1..MaxHeld] } :
            n \in 0..MaxHeldPositions }

FetchedPortfolios ==
    { PortfolioObject(positions,
                      SumSeq([k \in 1..Len(positions) |-> positions[k].market_value])
                          + cash_balance,
                      cash_balance) :
        positions \in HeldPositionLists, cash_balance \in CashBalances }

(* get_multiple_quotes: a quote for some of the symbols, at least one *)
QuotesFor(symbols) ==
    UNION { [quoted -> QuotePrices] : quoted \in (SUBSET symbols) \ {{}} }

MainRun(where, portfolio, quotes, position, refreshed, analysis, strategy) ==
    [pc |-> where, portfolio |-> portfolio, quotes |-> quotes, position |-> position,
     refreshed |-> refreshed, analysis |-> analysis, strategy |-> strategy]

MainInit ==
    /\ pc = "idle"
    /\ recommendations = <<>>
    /\ client = [primary_account_id |-> Some("ACCT"), portfolio |-> TestPortfolio]
    /\ config = <<>>
    /\ dry_run = TRUE
    /\ max_trades = 0
    /\ sorted_recommendations = <<>>
    /\ i = 0
    /\ executed_trades = <<>>
    /\ outcome = "none"
    /\ validation = None
    /\ history = <<>>
    /\ calls = NoCalls
    /\ fn = None
    /\ run = MainRun("get_portfolio", None, <<>>, 0, FALSE, None, None)

(* main.py 101-105: portfolio = schwab_client.get_portfolio() *)
MainGetPortfolio ==
    /\ run.pc = "get_portfolio"
    /\ \E portfolio \in FetchedPortfolios :
        run' = [run EXCEPT !.portfolio = Some(portfolio),
                           !.pc = IF portfolio.positions # <<>> THEN "get_multiple_quotes"
                                  ELSE "analyze_portfolio"]
    /\ UNCHANGED <<executorVars, fn>>

(* main.py 106-109, 121-122: the quotes, or the exception that is logged *)
MainGetMultipleQuotes ==
    /\ run.pc = "get_multiple_quotes"
    /\ \/ \E quotes \in QuotesFor({Val(run.portfolio).positions[k].symbol :
                                      k \in 1..Len(Val(run.portfolio).positions)}) :
            run' = [run EXCEPT !.quotes = quotes, !.position = 1, !.pc = "update"]
       \/ run' = [run EXCEPT !.pc = "analyze_portfolio"]
    /\ UNCHANGED <<executorVars, fn>>

(* main.py 112-116: one position of the loop *)
MainUpdatePosition ==
    /\ run.pc = "update"
    /\ run.position <= Len(Val(run.portfolio).positions)
    /\ LET portfolio == Val(run.portfolio)
           position == portfolio.positions[run.position]
       IN IF position.symbol \in DOMAIN run.quotes
          THEN run' = [run EXCEPT
                         !.portfolio = Some([portfolio EXCEPT !.positions[run.position] =
                             [position EXCEPT
                                !.current_price = run.quotes[position.symbol],
                                !.market_value = position.quantity
                                                     * run.quotes[position.symbol]]]),
                         !.refreshed = TRUE,
                         !.position = @ + 1]
          ELSE run' = [run EXCEPT !.position = @ + 1]
    /\ UNCHANGED <<executorVars, fn>>

(* main.py 118-120: portfolio._calculate_position_weights() *)
MainRecalculate ==
    /\ run.pc = "update"
    /\ run.position > Len(Val(run.portfolio).positions)
    /\ run' = [run EXCEPT !.portfolio = Some(_calculate_position_weights(Val(run.portfolio))),
                          !.pc = "analyze_portfolio"]
    /\ UNCHANGED <<executorVars, fn>>

(* what a computation reads of the portfolio object *)
ReadOf(portfolio) ==
    [weights |-> [k \in 1..Len(portfolio.positions) |-> portfolio.positions[k].weight],
     sector_allocations |-> portfolio.sector_allocations]

(* main.py 125: analyze_portfolio reads the weights and the allocations *)
MainAnalyzePortfolio ==
    /\ run.pc = "analyze_portfolio"
    /\ run' = [run EXCEPT !.analysis = Some(ReadOf(Val(run.portfolio))),
                          !.pc = "generate_recommendations"]
    /\ UNCHANGED <<executorVars, fn>>

(* main.py 139: generate_recommendations reads position.weight and
   portfolio.sector_allocations *)
MainGenerateRecommendations ==
    /\ run.pc = "generate_recommendations"
    /\ run' = [run EXCEPT !.strategy = Some(ReadOf(Val(run.portfolio))),
                          !.pc = "done"]
    /\ UNCHANGED <<executorVars, fn>>

MainNext ==
    \/ MainGetPortfolio
    \/ MainGetMultipleQuotes
    \/ MainUpdatePosition
    \/ MainRecalculate
    \/ MainAnalyzePortfolio
    \/ MainGenerateRecommendations

MainSpec == MainInit /\ [][MainNext]_vars

(* ------------------------------------------------------------------ *)
(* The portfolio object of a run                                       *)

Constructed == run.pc \in {"get_multiple_quotes", "analyze_portfolio",
                           "generate_recommendations", "done"}

(* the stored weights and the cash allocation, over the account value *)
WeightsPlusCash(portfolio) ==
    SumSeq([k \in 1..Len(portfolio.positions) |-> portfolio.positions[k].weight.num])
        + 100 * portfolio.cash_balance

(* C22: for a Portfolio with account_value > 0, once constructed and once
   refreshed in place and recalculated, the position weights and the cash
   allocation sum to 100 within 0.01. *)
C22_WeightsAndCashSumToHundred ==
    (Constructed /\ Val(run.portfolio).account_value > 0) =>
        LET portfolio == Val(run.portfolio)
        IN 100 * Abs(WeightsPlusCash(portfolio) - 100 * portfolio.account_value)
               <= portfolio.account_value

(* the values a recalculation of the weights and of the sector allocations
   gives *)
Recalculated(portfolio) ==
    ReadOf([_calculate_position_weights(portfolio) EXCEPT
               !.sector_allocations = _calculate_sector_allocations(portfolio)])

(* C24: after an in-place refresh of the positions, the weights and the
   sector allocations that the analysis and the recommendation computation
   read are the recalculated ones. *)
C24_RecalculatedBeforeRead ==
    run.refreshed =>
        /\ ~IsNone(run.analysis) => Val(run.analysis) = Recalculated(Val(run.portfolio))
        /\ ~IsNone(run.strategy) => Val(run.strategy) = Recalculated(Val(run.portfolio))

(* ------------------------------------------------------------------ *)
(* Market risk                                                         *)

KnownBeta(portfolio) == SelectSeq(portfolio.positions, LAMBDA p : ~IsNone(p.beta))

BetaValue(positions) == SumSeq([k \in 1..Len(positions) |-> positions[k].market_value])

(* 50 times the average beta of the positions, each weighted by its share
   of their total value, between 0 and 100, in hundredths *)
AverageBetaScore(positions) ==
    Score(Max(0, Min((500 * SumSeq([k \in 1..Len(positions) |->
                                      positions[k].market_value * Val(positions[k].beta)]))
                         \div BetaValue(positions),
                     10000)))

(* C21: calculate_market_risk returns exactly 50 for a nonempty portfolio
   none of whose positions has a beta, and for a portfolio in which some
   position has a beta it returns 50 times the average beta weighted over
   the positions that have one, clamped to [0, 100]. *)
C21_MarketRiskSentinelAndAverage ==
    Returned("calculate_market_risk") =>
        LET portfolio == fn.args.portfolio
            known == KnownBeta(portfolio)
        IN /\ (portfolio.positions # <<>> /\ known = <<>>) => Val(fn.result) = Score(5000)
           /\ (known # <<>> /\ BetaValue(known) > 0)
                  => Val(fn.result) = AverageBetaScore(known)

(* ------------------------------------------------------------------ *)
(* Frame of the risk assessment                                        *)

(* C23: calculate_portfolio_risk has no side effects and is deterministic:
   the portfolio and the supplied historical data are after the call what
   they were before it, and the report is the one every call with these
   arguments returns. *)
C23_RiskAssessmentIsPure ==
    Returned("calculate_portfolio_risk") =>
        /\ Val(fn.after).portfolio = fn.args.portfolio
        /\ Val(fn.after).historical_data = Frames(fn.args.historical_data)
        /\ \A sector_order \in Orders(sectors(fn.args.portfolio)) :
              Val(fn.result) = calculate_portfolio_risk(fn.args.portfolio,
                                                        fn.args.historical_data,
                                                        sector_order)

====
